---- MODULE Spec2Model ----
(***************************************************************************)
(* Verification model of the Practical-ML-DS notebooks:                    *)
(*   - "4. Multiclass classification": softmax (naive and stable),         *)
(*     to_one_hot / to_labels, _CrossEntropyWithLogits.forward / backward  *)
(*   - "0. Basics Solutions": the basic training loop, create_csv,         *)
(*     VGGClassifier.freeze and train(), SquareCrop, the datasets          *)
(*   - "Introduction to Dash": the decorators and the three Dash apps      *)
(*                                                                         *)
(* Numbers.  Logits are integers.  A float64 produced by the code is kept  *)
(* exactly, as a term over e:                                              *)
(*   [t |-> "q", a, D]      e^a / SUM_{d in D} e^d   (D a bag, max(D) = 0) *)
(*   [t |-> "zero"]         0.0 (also the result of an underflow)          *)
(*   [t |-> "inf"], "ninf", "nan"   the IEEE specials                      *)
(*   [t |-> "int", v]       an integer-valued float                        *)
(*   [t |-> "aff", c, q, b] c * q + b  with q a "q" term                   *)
(*   [t |-> "lin", k, n, D] k - n * log(SUM_{d in D} e^d)                  *)
(* e is transcendental, so two terms in normal form denote the same real   *)
(* exactly when they are equal.  Rounding in the last place is not         *)
(* modelled; overflow and underflow of exp are.                            *)
(***************************************************************************)
EXTENDS Integers, Sequences, FiniteSets, TLC

VARIABLES cache, call, ret,        \* the multiclass notebook: one operation instance
          pc, prog, loop, params, optim, val,  \* the training cells
          fs, csv                  \* create_csv and the data folder

mlvars == <<cache, call, ret>>
trvars == <<pc, prog, loop, params, optim, val>>
fsvars == <<fs, csv>>
vars == <<mlvars, trvars, fsvars>>

(* ---------------------------------------------------------------------- *)
(* Bounds of the model                                                     *)
(* ---------------------------------------------------------------------- *)
MaxN == 2
MaxCellRows == 1
MaxLabelsLen == 3
MaxLabel == 2

(* the classes of the notebook's running example: {dog=0, cat=1, turtle=2} *)
Classes == {"dog", "cat", "turtle"}
NumClasses == Cardinality(Classes)

(* float64: exp(x) is inf for x > 709 and 0.0 for x < -745 *)
ExpMax == 709
ExpMin == -745

(* the encoding of Python's None for an omitted max_labels *)
None == -1

(* ---------------------------------------------------------------------- *)
(* Helpers                                                                 *)
(* ---------------------------------------------------------------------- *)
Range(s) == {s[i] : i \in DOMAIN s}

MaxOf(S) == CHOOSE x \in S : \A y \in S : y <= x

RECURSIVE SumSeq(_)
SumSeq(s) == IF s = <<>> THEN 0 ELSE Head(s) + SumSeq(Tail(s))

BagOf(s) == [d \in Range(s) |-> Cardinality({i \in DOMAIN s : s[i] = d})]

ShiftBag(B, m) == [d \in {x - m : x \in DOMAIN B} |-> B[d + m]]

Unit == [d \in {0} |-> 1]

Nan == [t |-> "nan"]
Zero == [t |-> "zero"]
PosInf == [t |-> "inf"]
NegInf == [t |-> "ninf"]
IntV(v) == [t |-> "int", v |-> v]
Q(a, D) == [t |-> "q", a |-> a, D |-> D]
One == Q(0, Unit)

(* c * q + b in normal form *)
Aff(c, q, b) ==
    IF c = 0 THEN IntV(b)
    ELSE IF q = One THEN IntV(c + b)
    ELSE [t |-> "aff", c |-> c, q |-> q, b |-> b]

(* k - n * log(SUM D) in normal form (log(SUM Unit) = 0) *)
Lin(k, n, D) ==
    IF n = 0 \/ D = Unit THEN [t |-> "lin", k |-> k, n |-> 0, D |-> Unit]
    ELSE [t |-> "lin", k |-> k, n |-> n, D |-> D]

(* ---------------------------------------------------------------------- *)
(* numpy primitives on these terms                                         *)
(* ---------------------------------------------------------------------- *)
np_exp(x) ==
    IF x > ExpMax THEN PosInf
    ELSE IF x < ExpMin THEN Zero
    ELSE Q(x, Unit)

(* sum of one row of np.exp results *)
np_sum_exps(row) ==
    IF \E j \in DOMAIN row : row[j] = PosInf THEN PosInf
    ELSE LET nz == SelectSeq(row, LAMBDA v : v # Zero)
         IN IF nz = <<>> THEN Zero
            ELSE [t |-> "sum", S |-> BagOf([j \in DOMAIN nz |-> nz[j].a])]

(* num / den, num an np.exp result and den a row sum *)
np_divide(num, den) ==
    CASE den = PosInf -> IF num = PosInf THEN Nan ELSE Zero
      [] den = Zero   -> IF num = Zero THEN Nan ELSE PosInf
      [] OTHER        ->
           IF num = Zero THEN Zero
           ELSE LET m == MaxOf(DOMAIN den.S)
                IN IF num.a - m < ExpMin THEN Zero
                   ELSE Q(num.a - m, ShiftBag(den.S, m))

np_log(v) ==
    CASE v = Nan  -> Nan
      [] v = Zero -> NegInf
      [] OTHER    -> Lin(v.a, 1, v.D)

(* o * l for o a 0.0 / 1.0 entry of a one-hot matrix and l a log *)
MulLog(o, l) ==
    CASE l = Nan -> Nan
      [] l \in {NegInf, PosInf} ->
           IF o = 0 THEN Nan
           ELSE IF (o > 0) = (l = PosInf) THEN PosInf ELSE NegInf
      [] OTHER -> Lin(o * l.k, o * l.n, l.D)

AddLog(u, v) ==
    CASE u = Nan \/ v = Nan -> Nan
      [] u \in {NegInf, PosInf} ->
           IF v \in {NegInf, PosInf} /\ v # u THEN Nan ELSE u
      [] v \in {NegInf, PosInf} -> v
      [] OTHER ->
           IF u.n = 0 THEN Lin(u.k + v.k, v.n, v.D)
           ELSE IF v.n = 0 \/ v.D = u.D THEN Lin(u.k + v.k, u.n + v.n, u.D)
           ELSE [t |-> "unsupported"]

RECURSIVE SumLog(_)
SumLog(row) == IF row = <<>> THEN Lin(0, 0, Unit)
               ELSE AddLog(Head(row), SumLog(Tail(row)))

NegLog(l) == MulLog(-1, l)

(* s * v for s an integer-valued float and v a softmax entry *)
MulProb(v, s) ==
    CASE v = Nan  -> Nan
      [] v = Zero -> IntV(0)
      [] OTHER    -> Aff(s, v, 0)

(* x - o and u * x on linear terms *)
SubInt(x, o) ==
    CASE x = Nan      -> Nan
      [] x.t = "int"  -> IntV(x.v - o)
      [] OTHER        -> Aff(x.c, x.q, x.b - o)

MulInt(u, x) ==
    CASE x = Nan      -> Nan
      [] x.t = "int"  -> IntV(u * x.v)
      [] OTHER        -> Aff(u * x.c, x.q, u * x.b)

(* numpy broadcasting of two 2-D shapes *)
Compatible(d1, d2) == d1 = d2 \/ d1 = 1 \/ d2 = 1

Rows(M) == Len(M)
Cols(M) == Len(M[1])

CanBroadcast(A, B) ==
    Compatible(Rows(A), Rows(B)) /\ Compatible(Cols(A), Cols(B))

Pick(M, i, j) == M[IF Rows(M) = 1 THEN 1 ELSE i][IF Cols(M) = 1 THEN 1 ELSE j]

Broadcast(F(_, _), A, B) ==
    LET n == IF Rows(A) = 1 THEN Rows(B) ELSE Rows(A)
        k == IF Cols(A) = 1 THEN Cols(B) ELSE Cols(A)
    IN [i \in 1..n |-> [j \in 1..k |-> F(Pick(A, i, j), Pick(B, i, j))]]

(* the parts of the state a specification does not run *)
IdleML == cache = <<>> /\ call = [op |-> "idle"] /\ ret = [raised |-> "", val |-> <<>>]
IdleTrain ==
    /\ pc = "idle" /\ prog = "idle" /\ loop = <<>>
    /\ params = <<>> /\ optim = <<>> /\ val = <<>>
IdleFs == fs = <<>> /\ csv = <<>>

(* ---------------------------------------------------------------------- *)
(* softmax: the first definition (naive) and the stable one that replaces  *)
(* it for the rest of the notebook                                         *)
(* ---------------------------------------------------------------------- *)
softmax_naive(x) ==
    [i \in DOMAIN x |->
        LET e == [j \in DOMAIN x[i] |-> np_exp(x[i][j])]
            s == np_sum_exps(e)
        IN [j \in DOMAIN e |-> np_divide(e[j], s)]]

(* a stable softmax that forgets to subtract the row maximum *)
softmax_no_max(logits) == softmax_naive(logits)

(* a shift that subtracts nothing *)
SubtractNothing(logits) == logits

(* logits - np.max(logits, axis=1).reshape(-1, 1): what is passed to np.exp *)
SubtractRowMax(logits) ==
    [i \in DOMAIN logits |->
        [j \in DOMAIN logits[i] |-> logits[i][j] - MaxOf(Range(logits[i]))]]

(* np.exp of one row, elementwise *)
ExpRow(row) == [j \in DOMAIN row |-> np_exp(row[j])]

softmax(logits) ==
    LET shifted == SubtractRowMax(logits)
    IN [i \in DOMAIN logits |->
           LET exps == ExpRow(shifted[i])
               s == np_sum_exps(exps)
           IN [j \in DOMAIN exps |-> np_divide(exps[j], s)]]

(* x + c, c broadcast over the matrix *)
AddScalar(x, c) == [i \in DOMAIN x |-> [j \in DOMAIN x[i] |-> x[i][j] + c]]

(* ---------------------------------------------------------------------- *)
(* to_one_hot / to_labels                                                  *)
(* ---------------------------------------------------------------------- *)
Ok(v) == [raised |-> "", val |-> v]
Raise(e) == [raised |-> e, val |-> <<>>]

(* np.eye(m)[l]: row l of the identity, Python index rules *)
EyeRow(m, l) == [j \in 1..m |-> IF j = (IF l < 0 THEN l + m ELSE l) + 1 THEN 1 ELSE 0]

(* to_one_hot that sizes the matrix by max(labels) instead of max + 1 *)
to_one_hot_no_plus_one(labels, max_labels) ==
    LET m == IF max_labels = None THEN MaxOf(Range(labels)) ELSE max_labels
    IN IF m < 0 THEN Raise("ValueError")
       ELSE IF \E i \in DOMAIN labels : labels[i] >= m \/ labels[i] < -m
            THEN Raise("IndexError")
            ELSE Ok([i \in DOMAIN labels |-> EyeRow(m, labels[i])])

to_one_hot(labels, max_labels) ==
    LET m == IF max_labels = None THEN MaxOf(Range(labels)) + 1 ELSE max_labels
    IN IF m < 0 THEN Raise("ValueError")
       ELSE IF \E i \in DOMAIN labels : labels[i] >= m \/ labels[i] < -m
            THEN Raise("IndexError")
            ELSE Ok([i \in DOMAIN labels |-> EyeRow(m, labels[i])])

(* np.argmax of one row: the first index (0-based) of the maximum *)
ArgMax(row) ==
    (CHOOSE j \in DOMAIN row :
        /\ \A k \in DOMAIN row : row[k] <= row[j]
        /\ \A k \in DOMAIN row : k < j => row[k] < row[j]) - 1

to_labels(one_hot) == [i \in DOMAIN one_hot |-> ArgMax(one_hot[i])]

(* ---------------------------------------------------------------------- *)
(* _CrossEntropyWithLogits                                                 *)
(* ---------------------------------------------------------------------- *)
NoCache == <<>>

LogM(P) == [i \in DOMAIN P |-> [j \in DOMAIN P[i] |-> np_log(P[i][j])]]

(* forward that caches the log of the softmax output in place of it *)
forward_caches_log(logits, targets) ==
    LET softmaxed == softmax(logits)
        one_hot == to_one_hot(targets, None).val
    IN IF ~CanBroadcast(one_hot, softmaxed)
       THEN [cache |-> <<LogM(softmaxed), one_hot>>, ret |-> Raise("ValueError")]
       ELSE LET prod == Broadcast(MulLog, one_hot, LogM(softmaxed))
            IN [cache |-> <<LogM(softmaxed), one_hot>>,
                ret |-> Ok([i \in DOMAIN prod |-> NegLog(SumLog(prod[i]))])]

(* forward: the new value of self.cache and what the call returns or raises *)
(* (the product raises after self.cache has been assigned)                 *)
forward(logits, targets) ==
    LET softmaxed == softmax(logits)
        one_hot == to_one_hot(targets, None).val
    IN IF ~CanBroadcast(one_hot, softmaxed)
       THEN [cache |-> <<softmaxed, one_hot>>, ret |-> Raise("ValueError")]
       ELSE LET prod == Broadcast(MulLog, one_hot, LogM(softmaxed))
            IN [cache |-> <<softmaxed, one_hot>>,
                ret |-> Ok([i \in DOMAIN prod |-> NegLog(SumLog(prod[i]))])]

(* upstream_gradient.reshape(-1, 1) *)
Column(v) == [i \in DOMAIN v |-> <<v[i]>>]

backward(self, upstream_gradient) ==
    LET expanded_output == Column(upstream_gradient)
        rowsum == [i \in DOMAIN self.cache[2] |-> <<SumSeq(self.cache[2][i])>>]
    IN IF ~CanBroadcast(self.cache[1], self.cache[2])
          \/ ~CanBroadcast(expanded_output, self.cache[1])
       THEN [cache |-> self.cache, ret |-> Raise("ValueError")]
       ELSE LET scaled == Broadcast(MulProb, self.cache[1], rowsum)
                diff == Broadcast(SubInt, scaled, self.cache[2])
                neg == [i \in DOMAIN expanded_output |-> <<-expanded_output[i][1]>>]
            IN [cache |-> self.cache,
                ret |-> Ok(<<Broadcast(LAMBDA u, x : MulInt(u, x), expanded_output, diff),
                             Broadcast(MulLog, neg, LogM(self.cache[1]))>>)]

(* ---------------------------------------------------------------------- *)
(* One _CrossEntropyWithLogits instance: calls of forward and backward     *)
(* ---------------------------------------------------------------------- *)
LogitRows ==
    { [j \in 1..NumClasses |-> j - 1],
      [j \in 1..NumClasses |-> IF j = 1 THEN 1000 ELSE j - 1] }

Batches == UNION { [1..n -> LogitRows] : n \in 1..MaxN }

TargetsOf(n) == [1..n -> 0..(NumClasses - 1)]

UpstreamsOf(n) == [1..n -> {0, 2}]

(* the most recent forward's arguments, the most recent backward's, and    *)
(* whether that forward found the cache of an earlier, different call      *)
NoCall == [op |-> "init", logits |-> <<>>, targets |-> <<>>,
           upstream |-> <<>>, replaced |-> FALSE]

InitCE ==
    /\ IdleTrain /\ IdleFs
    /\ cache = NoCache
    /\ call = NoCall
    /\ ret = Ok(<<>>)

(* ce_with_logits / forward on every batch of the model, evaluated once *)
CEInputs == UNION { {<<l, t>> : t \in TargetsOf(Len(l))} : l \in Batches }

ForwardOf == [x \in CEInputs |-> forward(x[1], x[2])]

Forward ==
    /\ UNCHANGED <<trvars, fsvars>>
    /\ \E x \in CEInputs :
         LET r == ForwardOf[x]
         IN /\ cache' = r.cache
            /\ ret' = r.ret
            /\ call' = [op |-> "forward", logits |-> x[1],
                        targets |-> x[2], upstream |-> <<>>,
                        replaced |-> cache # NoCache /\ cache # r.cache]

Backward ==
    /\ UNCHANGED <<trvars, fsvars>>
    /\ cache # NoCache
    /\ \E upstream_gradient \in UpstreamsOf(Len(cache[1])) :
        LET r == backward([cache |-> cache], upstream_gradient)
        IN /\ cache' = r.cache
           /\ ret' = r.ret
           /\ call' = [call EXCEPT !.op = "backward",
                                   !.upstream = upstream_gradient]

NextCE == Forward \/ Backward

SpecCE == InitCE /\ [][NextCE]_vars

(* ---------------------------------------------------------------------- *)
(* The cell that compares softmax(original) with softmax(original + c),    *)
(* run with the naive and with the stable definition                       *)
(* ---------------------------------------------------------------------- *)
CellRows == [1..NumClasses -> {0, 1, 1000}]

CellInputs == UNION { [1..n -> CellRows] : n \in 1..MaxCellRows }

Shifts == {-1000, -1, 6, 1000}

InitSoftmax ==
    /\ IdleTrain /\ IdleFs
    /\ cache = NoCache
    /\ \E original \in CellInputs :
         \E c \in Shifts :
           call = [op |-> "pending", x |-> original, c |-> c]
    /\ ret = Ok(<<>>)

SoftmaxCell ==
    /\ call.op = "pending"
    /\ LET original == call.x
           subtracted == AddScalar(original, call.c)
       IN /\ call' = [call EXCEPT !.op = "softmax_cell"]
          /\ ret' = [naive |-> <<softmax_naive(original), softmax_naive(subtracted)>>,
                     stable |-> <<softmax(original), softmax(subtracted)>>]
          /\ UNCHANGED <<cache, trvars, fsvars>>

NextSoftmax == SoftmaxCell

SpecSoftmax == InitSoftmax /\ [][NextSoftmax]_vars

(* ---------------------------------------------------------------------- *)
(* The cell that encodes labels and decodes them again                     *)
(* ---------------------------------------------------------------------- *)
LabelArrays == UNION { [1..n -> 0..MaxLabel] : n \in 1..MaxLabelsLen }

MaxLabelsArgs == {None} \cup (0..(MaxLabel + 2))

InitOneHot ==
    /\ IdleTrain /\ IdleFs
    /\ cache = NoCache
    /\ \E data \in LabelArrays :
         \E max_labels \in MaxLabelsArgs :
           call = [op |-> "pending", labels |-> data, max_labels |-> max_labels]
    /\ ret = [one_hot |-> Ok(<<>>), labels |-> <<>>]

OneHotCell ==
    /\ call.op = "pending"
    /\ LET oh == to_one_hot(call.labels, call.max_labels)
       IN /\ call' = [call EXCEPT !.op = "one_hot"]
          /\ ret' = [one_hot |-> oh,
                     labels |-> IF oh.raised = ""
                                THEN to_labels(oh.val) ELSE <<>>]
          /\ UNCHANGED <<cache, trvars, fsvars>>

NextOneHot == OneHotCell

SpecOneHot == InitOneHot /\ [][NextOneHot]_vars

(* ---------------------------------------------------------------------- *)
(* The training cells of the PyTorch notebook                              *)
(*                                                                         *)
(* A parameter group of a model (all tensors of one sub-module) is one     *)
(* entry of params:                                                        *)
(*   requires_grad  the flag freeze() / unfreeze() set                     *)
(*   grad           [none, passes]: .grad is None, or the sum of the       *)
(*                  gradients of the backward passes in `passes` (a zeroed *)
(*                  tensor is the empty sum)                               *)
(*   updates        the number of optimiser updates applied to it          *)
(*   lr             the learning rate of the last update (in 1e-5)         *)
(*   used           the step that last updated it: the number of backward  *)
(*                  passes run by then, and the passes its gradient summed *)
(* ---------------------------------------------------------------------- *)
batch_size == 16
BasicEpochs == 20
DiscEpochs == 2
FrozenEpochs == 5
SGD_lr == 10000
lr0 == 30
lr1 == 3
Adam_lr == 30

(* len(mydataset) *)
DataSizes == {5, 9, 10, 25, 170}

(* cost.item() of one validation batch, in some unit *)
Costs == {1, 2}

train_size(data_size) == (8 * data_size) \div 10
val_size(data_size) == data_size \div 10

(* len(DataLoader(data, batch_size=batch_size)) *)
NumBatches(size) == (size + batch_size - 1) \div batch_size

NoGrad == [none |-> TRUE, passes |-> {}]
NoStep == [at |-> 0, passes |-> {}]

FreshParam == [requires_grad |-> TRUE, grad |-> NoGrad, updates |-> 0,
               lr |-> 0, used |-> NoStep]

(* the parameters an optimiser was constructed over *)
OptimParams(o) == UNION { o[k].params : k \in DOMAIN o }

(* loss.backward(): every parameter that requires grad accumulates the     *)
(* gradient of pass `id` into .grad                                        *)
backward_pass(ps, id) ==
    [p \in DOMAIN ps |->
        IF ps[p].requires_grad
        THEN [ps[p] EXCEPT !.grad = [none |-> FALSE, passes |-> @.passes \cup {id}]]
        ELSE ps[p]]

(* a zero_grad that leaves the gradients as they are *)
zero_grad_noop(ps, o, set_to_none) == ps

(* optimiser.zero_grad(): the gradients of the optimiser's parameters are  *)
(* set to None or zeroed in place, by the default of the installed torch   *)
zero_grad(ps, o, set_to_none) ==
    [p \in DOMAIN ps |->
        IF p \in OptimParams(o) /\ ~ps[p].grad.none
        THEN [ps[p] EXCEPT !.grad = [none |-> set_to_none, passes |-> {}]]
        ELSE ps[p]]

(* optimiser.step(): every parameter of every group that has a gradient is *)
(* updated with its group's learning rate; a parameter whose .grad is None *)
(* is skipped                                                              *)
optimiser_step(ps, o, nback) ==
    [p \in DOMAIN ps |->
        IF \E k \in DOMAIN o : p \in o[k].params /\ ~ps[p].grad.none
        THEN LET k == CHOOSE k \in DOMAIN o : p \in o[k].params
             IN [ps[p] EXCEPT !.updates = @ + 1,
                              !.lr = o[k].lr,
                              !.used = [at |-> nback, passes |-> ps[p].grad.passes]]
        ELSE ps[p]]

(* a freeze that walks the new layers instead of the pretrained ones *)
freeze_regressor(ps) == [ps EXCEPT !["regressor"].requires_grad = FALSE]

(* VGGClassifier.freeze / unfreeze *)
freeze(ps) == [ps EXCEPT !["features"].requires_grad = FALSE]

unfreeze(ps) == [ps EXCEPT !["features"].requires_grad = TRUE]

NewLoop(epochs, data_size, set_to_none) ==
    [e |-> 0, i |-> 0, vi |-> 0, epochs |-> epochs,
     ntrain |-> NumBatches(train_size(data_size)),
     nval |-> NumBatches(val_size(data_size)),
     data_size |-> data_size,
     batch_idx |-> 0, nback |-> 0, nsteps |-> 0,
     zeros |-> 0, between |-> -1, set_to_none |-> set_to_none]

(* valcost, what the writer logged last for the validation loss, the      *)
(* exception train() ended with; costs is the list of the cost.item() of  *)
(* the validation batches of the epoch in progress                        *)
NoVal == [valcost |-> 0, costs |-> <<>>, logged |-> <<>>, raised |-> ""]

(* an epoch head that leaves valcost as the last epoch left it *)
reset_nothing(v) == v

(* ecost = 0; valcost = 0 *)
reset_valcost(v) == [v EXCEPT !.valcost = 0]

InitTrain ==
    /\ IdleML /\ IdleFs
    /\ \E set_to_none \in BOOLEAN :
        \/ /\ prog = "basic"
           /\ pc = "b_backward"
           /\ loop = NewLoop(BasicEpochs, batch_size, set_to_none)
           /\ params = [p \in {"layer"} |-> FreshParam]
           /\ optim = << [params |-> {"layer"}, lr |-> SGD_lr] >>
        \/ /\ prog \in {"disc", "frozen"}
           /\ pc = "cell"
           /\ \E data_size \in DataSizes :
                loop = NewLoop(0, data_size, set_to_none)
           /\ params = [p \in {"features", "regressor"} |-> FreshParam]
           /\ optim = <<>>
    /\ val = NoVal

(* the basic loop: outputs, loss, loss.backward() *)
BasicBackward ==
    /\ prog = "basic" /\ pc = "b_backward"
    /\ params' = backward_pass(params, loop.nback + 1)
    /\ loop' = [loop EXCEPT !.nback = @ + 1, !.between = loop.zeros, !.zeros = 0]
    /\ pc' = "b_step"
    /\ UNCHANGED <<prog, optim, val, mlvars, fsvars>>

BasicStep ==
    /\ prog = "basic" /\ pc = "b_step"
    /\ params' = optimiser_step(params, optim, loop.nback)
    /\ loop' = [loop EXCEPT !.nsteps = @ + 1]
    /\ pc' = "b_zero"
    /\ UNCHANGED <<prog, optim, val, mlvars, fsvars>>

BasicZeroGrad ==
    /\ prog = "basic" /\ pc = "b_zero"
    /\ params' = zero_grad(params, optim, loop.set_to_none)
    /\ loop' = [loop EXCEPT !.zeros = @ + 1, !.e = @ + 1]
    /\ pc' = IF loop.e + 1 < loop.epochs THEN "b_backward" ELSE "done"
    /\ UNCHANGED <<prog, optim, val, mlvars, fsvars>>

(* parameter groups with the two learning rates exchanged *)
DiscGroupsSwapped ==
    << [params |-> {"regressor"}, lr |-> lr1],
       [params |-> {"features"}, lr |-> lr0] >>

(* the param_groups of the discriminative optimiser *)
DiscGroups ==
    << [params |-> {"regressor"}, lr |-> lr0],
       [params |-> {"features"}, lr |-> lr1] >>

(* the discriminative cell: two parameter groups, then train(.., 2, ..) *)
DiscCell ==
    /\ prog = "disc" /\ pc = "cell"
    /\ optim' = DiscGroups
    /\ loop' = [loop EXCEPT !.epochs = DiscEpochs]
    /\ pc' = "epoch"
    /\ UNCHANGED <<prog, params, val, mlvars, fsvars>>

(* the frozen cell: the optimiser over all parameters, ... *)
FrozenCell ==
    /\ prog = "frozen" /\ pc = "cell"
    /\ optim' = << [params |-> DOMAIN params, lr |-> Adam_lr] >>
    /\ pc' = "freeze"
    /\ UNCHANGED <<prog, loop, params, val, mlvars, fsvars>>

(* ... frozen_model.freeze(), then train(.., 5, ..) *)
Freeze ==
    /\ prog = "frozen" /\ pc = "freeze"
    /\ params' = freeze(params)
    /\ loop' = [loop EXCEPT !.epochs = FrozenEpochs]
    /\ pc' = "epoch"
    /\ UNCHANGED <<prog, optim, val, mlvars, fsvars>>

AfterTrainBatches(l) == IF l.nval > 0 THEN "val" ELSE "avg"

(* train(): the head of the epoch loop *)
TrainEpoch ==
    /\ pc = "epoch" /\ loop.e < loop.epochs
    /\ val' = [reset_valcost(val) EXCEPT !.costs = <<>>]
    /\ loop' = [loop EXCEPT !.i = 0, !.vi = 0]
    /\ pc' = IF loop.ntrain > 0 THEN "zero_grad" ELSE AfterTrainBatches(loop)
    /\ UNCHANGED <<prog, params, optim, mlvars, fsvars>>

(* train(): h, cost, optimiser.zero_grad() *)
TrainZeroGrad ==
    /\ pc = "zero_grad"
    /\ params' = zero_grad(params, optim, loop.set_to_none)
    /\ loop' = [loop EXCEPT !.zeros = @ + 1]
    /\ pc' = "backward"
    /\ UNCHANGED <<prog, optim, val, mlvars, fsvars>>

(* train(): cost.backward() *)
TrainBackward ==
    /\ pc = "backward"
    /\ params' = backward_pass(params, loop.nback + 1)
    /\ loop' = [loop EXCEPT !.nback = @ + 1, !.between = loop.zeros, !.zeros = 0]
    /\ pc' = "step"
    /\ UNCHANGED <<prog, optim, val, mlvars, fsvars>>

(* train(): optimiser.step(), the logging, batch_idx += 1 *)
TrainStep ==
    /\ pc = "step"
    /\ params' = optimiser_step(params, optim, loop.nback)
    /\ loop' = [loop EXCEPT !.nsteps = @ + 1, !.batch_idx = @ + 1, !.i = @ + 1]
    /\ pc' = IF loop.i + 1 < loop.ntrain THEN "zero_grad" ELSE AfterTrainBatches(loop)
    /\ UNCHANGED <<prog, optim, val, mlvars, fsvars>>

(* train(): one validation batch *)
ValBatch ==
    /\ pc = "val"
    /\ \E cost \in Costs :
          val' = [val EXCEPT !.valcost = @ + cost, !.costs = Append(@, cost)]
    /\ loop' = [loop EXCEPT !.vi = @ + 1]
    /\ pc' = IF loop.vi + 1 < loop.nval THEN "val" ELSE "avg"
    /\ UNCHANGED <<prog, params, optim, mlvars, fsvars>>

(* train(): avg_valcost = valcost / len(val_samples), logged *)
EpochEnd ==
    /\ pc = "avg"
    /\ IF loop.nval = 0
       THEN /\ val' = [val EXCEPT !.raised = "ZeroDivisionError"]
            /\ pc' = "raised"
            /\ UNCHANGED loop
       ELSE /\ val' = [val EXCEPT !.logged =
                          << [sum |-> val.valcost, batches |-> loop.nval,
                              at |-> loop.batch_idx, costs |-> val.costs] >>]
            /\ pc' = "epoch"
            /\ loop' = [loop EXCEPT !.e = @ + 1]
    /\ UNCHANGED <<prog, params, optim, mlvars, fsvars>>

(* train() returns after the last epoch *)
TrainReturn ==
    /\ pc = "epoch" /\ loop.e >= loop.epochs
    /\ pc' = IF prog = "frozen" THEN "unfreeze" ELSE "done"
    /\ UNCHANGED <<prog, loop, params, optim, val, mlvars, fsvars>>

(* the frozen cell after train(): frozen_model.unfreeze() *)
Unfreeze ==
    /\ prog = "frozen" /\ pc = "unfreeze"
    /\ params' = unfreeze(params)
    /\ pc' = "done"
    /\ UNCHANGED <<prog, loop, optim, val, mlvars, fsvars>>

NextTrain ==
    \/ BasicBackward \/ BasicStep \/ BasicZeroGrad
    \/ DiscCell \/ FrozenCell \/ Freeze
    \/ TrainEpoch \/ TrainZeroGrad \/ TrainBackward \/ TrainStep
    \/ ValBatch \/ EpochEnd \/ TrainReturn \/ Unfreeze

SpecTrain == InitTrain /\ [][NextTrain]_vars

(* ---------------------------------------------------------------------- *)
(* create_csv                                                              *)
(*                                                                         *)
(* fs is the content of the data root: a function from the names of its   *)
(* entries to [is_dir, children], children a function from the names of   *)
(* the entries of a directory to "file" or "dir".  csv is the content of  *)
(* root + out_name.  os.scandir yields the entries of a directory in an   *)
(* arbitrary order, so a listing is any permutation of the names.         *)
(* ---------------------------------------------------------------------- *)
MaxCalls == 2

RootNames == {"cats", "dogs", "notes"}
ChildNames == {"1.jpg", "2.jpg"}
out_name == "labels.csv"

File == [is_dir |-> FALSE, children |-> <<>>]
Dir(children) == [is_dir |-> TRUE, children |-> children]

ChildMaps == UNION { [S -> {"file", "dir"}] : S \in SUBSET ChildNames }
Entries == {File} \cup { Dir(c) : c \in ChildMaps }

Perms(S) ==
    { s \in [1..Cardinality(S) -> S] : \A i, j \in DOMAIN s : s[i] = s[j] => i = j }

(* the orders in which os.scandir may list the sub-directories of the root *)
ListingsOf(fsys) ==
    LET dirs == { n \in DOMAIN fsys : fsys[n].is_dir }
        all == UNION { Perms(DOMAIN fsys[d].children) : d \in dirs }
    IN { l \in [dirs -> all] : \A d \in dirs : l[d] \in Perms(DOMAIN fsys[d].children) }

RECURSIVE Flatten(_)
Flatten(ss) == IF ss = <<>> THEN <<>> ELSE Head(ss) \o Flatten(Tail(ss))

IndexOf(seq, x) == CHOOSE i \in DOMAIN seq : seq[i] = x

(* a create_csv that numbers the entries of the root, not the sub-folders *)
create_csv_root_index(fsys, scan_root, scan_dir) ==
    LET is_dir(n) == fsys[n].is_dir
        subfolders == SelectSeq(scan_root, is_dir)
        rowsOf(i) ==
            LET path == subfolders[i]
                is_file(f) == fsys[path].children[f] = "file"
                files == SelectSeq(scan_dir[path], is_file)
            IN [k \in DOMAIN files |->
                   [file_path |-> <<path, files[k]>>,
                    label |-> IndexOf(scan_root, path) - 1]]
    IN [columns |-> <<"file_path", "label">>,
        subfolders |-> subfolders,
        rows |-> Flatten([i \in DOMAIN subfolders |-> rowsOf(i)])]

(* create_csv(root, out_name): the table it hands to to_csv *)
create_csv(fsys, scan_root, scan_dir) ==
    LET is_dir(n) == fsys[n].is_dir
        subfolders == SelectSeq(scan_root, is_dir)
        rowsOf(i) ==
            LET path == subfolders[i]
                is_file(f) == fsys[path].children[f] = "file"
                files == SelectSeq(scan_dir[path], is_file)
            IN [k \in DOMAIN files |->
                   [file_path |-> <<path, files[k]>>, label |-> i - 1]]
    IN [columns |-> <<"file_path", "label">>,
        subfolders |-> subfolders,
        rows |-> Flatten([i \in DOMAIN subfolders |-> rowsOf(i)])]

(* df.to_csv(root + out_name): the file is created or overwritten *)
to_csv(fsys, name) ==
    [n \in DOMAIN fsys \cup {name} |-> IF n = name THEN File ELSE fsys[n]]

NoCsv == [written |-> FALSE, columns |-> <<>>, rows |-> <<>>,
          subfolders |-> <<>>, calls |-> 0]

InitCsv ==
    /\ IdleML /\ IdleTrain
    /\ \E present \in SUBSET RootNames : fs \in [present -> Entries]
    /\ csv = NoCsv

CreateCsv ==
    /\ csv.calls < MaxCalls
    /\ \E scan_root \in Perms(DOMAIN fs) :
       \E scan_dir \in ListingsOf(fs) :
          LET df == create_csv(fs, scan_root, scan_dir)
          IN /\ csv' = [written |-> TRUE, columns |-> df.columns, rows |-> df.rows,
                        subfolders |-> df.subfolders, calls |-> csv.calls + 1]
             /\ fs' = to_csv(fs, out_name)
    /\ UNCHANGED <<mlvars, trvars>>

NextCsv == CreateCsv

SpecCsv == InitCsv /\ [][NextCsv]_vars

(* ---------------------------------------------------------------------- *)
(* The decorators of the Dash notebook                                     *)
(*                                                                         *)
(* A call runs in a world w = [stdout, calls]: the lines printed so far    *)
(* and the calls the original function has received.  A call yields        *)
(* [value, raised, w].  Keyword arguments are a set of <<name, value>>.    *)
(* ---------------------------------------------------------------------- *)
MaxArgs == 2

NoWorld == [stdout |-> <<>>, calls |-> <<>>]

NoneValue == [kind |-> "None", args |-> <<>>, kwargs |-> {}]

(* the functions handed to a decorator: hello_world and alphabet take no   *)
(* arguments, print and return None; f stands for any function of          *)
(* positional and keyword arguments whose result depends on all of them;   *)
(* boom raises                                                             *)
Originals == {"hello_world", "alphabet", "f", "boom"}

original_function(fn, args, kwargs, w) ==
    LET called == [w EXCEPT !.calls = Append(@, [fn |-> fn, args |-> args, kwargs |-> kwargs])]
    IN CASE fn \in {"hello_world", "alphabet"} ->
              IF args # <<>> \/ kwargs # {}
              THEN [value |-> NoneValue, raised |-> "TypeError", w |-> called]
              ELSE [value |-> NoneValue, raised |-> "",
                    w |-> [called EXCEPT !.stdout = Append(@, <<fn, "body">>)]]
         [] fn = "boom" ->
              [value |-> NoneValue, raised |-> "Exception", w |-> called]
         [] OTHER ->
              [value |-> [kind |-> "f", args |-> args, kwargs |-> kwargs],
               raised |-> "", w |-> called]

(* a wrapper that passes the positional arguments only *)
wrapper_drops_kwargs(fn, args, kwargs, w) ==
    original_function(fn, args, {},
        [w EXCEPT !.stdout = @ \o << <<"sunglasses">>, <<"You've been decorated">> >>])

(* decorator_function(original_function): its wrapper_function *)
wrapper_function(fn, args, kwargs, w) ==
    original_function(fn, args, kwargs,
        [w EXCEPT !.stdout = @ \o << <<"sunglasses">>, <<"You've been decorated">> >>])

(* my_timer(original_function): its wrapper; dt is time() - t1 *)
wrapper(fn, args, kwargs, w, dt) ==
    LET result == original_function(fn, args, kwargs, w)
    IN IF result.raised # "" THEN result
       ELSE [result EXCEPT !.w.stdout = Append(@, <<fn, "ran in", dt>>)]

Decorators == {"decorator_function", "my_timer"}

ArgLists == UNION { [1..n -> {1, 2}] : n \in 0..MaxArgs }

KwargSets == { {}, {<<"k", 1>>}, {<<"k", 2>>}, {<<"k", 1>>, <<"j", 2>>} }

InitDeco ==
    /\ IdleTrain /\ IdleFs
    /\ cache = NoCache
    /\ \E d \in Decorators, fn \in Originals, args \in ArgLists, kwargs \in KwargSets :
          call = [op |-> "pending", decorator |-> d, fn |-> fn,
                  args |-> args, kwargs |-> kwargs]
    /\ ret = [value |-> NoneValue, raised |-> "", w |-> NoWorld]

(* a call of a function decorated with @decorator_function *)
CallDecorated ==
    /\ call.op = "pending" /\ call.decorator = "decorator_function"
    /\ ret' = wrapper_function(call.fn, call.args, call.kwargs, NoWorld)
    /\ call' = [call EXCEPT !.op = "called"]
    /\ UNCHANGED <<cache, trvars, fsvars>>

(* a call of a function decorated with @my_timer *)
CallTimed ==
    /\ call.op = "pending" /\ call.decorator = "my_timer"
    /\ \E dt \in {0, 1} :
          ret' = wrapper(call.fn, call.args, call.kwargs, NoWorld, dt)
    /\ call' = [call EXCEPT !.op = "called"]
    /\ UNCHANGED <<cache, trvars, fsvars>>

NextDeco == CallDecorated \/ CallTimed

SpecDeco == InitDeco /\ [][NextDeco]_vars

(* ---------------------------------------------------------------------- *)
(* The three Dash apps                                                     *)
(*                                                                         *)
(* The layout maps <<component id, property>> to a value.  Dash calls a    *)
(* registered function when the page loads and whenever one of its Inputs  *)
(* changes, with one argument per Input, and stores what it returns in     *)
(* the Outputs, one value per Output.                                      *)
(* ---------------------------------------------------------------------- *)
AppDefs ==
    << [dropdown |-> "dcc.Dropdown", external_stylesheets |-> <<>>],
       [dropdown |-> "dcc.Dropdown", external_stylesheets |-> <<"CYBORG">>],
       [dropdown |-> "dbc.Select", external_stylesheets |-> <<"CYBORG">>] >>

(* some of px.colors.named_colorscales() *)
Colorscales == {"plasma", "viridis", "inferno", "magma", "cividis", "turbo"}

Graph == <<"graph", "figure">>
ColorscaleDropdown == <<"colorscale-dropdown", "value">>

(* @app.callback(Output('graph', 'figure'), [Input("colorscale-dropdown", "value")]) *)
callback_outputs == << Graph >>
callback_inputs == << ColorscaleDropdown >>

(* def update_figure(colorscale) *)
update_figure_params == << "colorscale" >>

scatter(colorscale) ==
    [x |-> "total_bill", y |-> "tip", color |-> "size",
     color_continuous_scale |-> colorscale, title |-> "Tips"]

NoFigure == scatter("")

(* an update_figure that returns the figure and a second value *)
update_figure_and_title(args) == << scatter(args[1]), scatter("") >>

(* update_figure: the values it returns *)
update_figure(args) == << scatter(args[1]) >>

InitialLayout == [c \in {Graph, ColorscaleDropdown} |->
                     IF c = Graph THEN NoFigure ELSE "plasma"]

(* one call of the registered function by Dash *)
dispatch(layout) ==
    LET args == [k \in DOMAIN callback_inputs |-> layout[callback_inputs[k]]]
    IN IF Len(args) # Len(update_figure_params)
       THEN [layout |-> layout, raised |-> "TypeError", nargs |-> Len(args), nvalues |-> 0]
       ELSE LET out == update_figure(args)
            IN IF Len(out) # Len(callback_outputs)
               THEN [layout |-> layout, raised |-> "InvalidCallbackReturnValue",
                     nargs |-> Len(args), nvalues |-> Len(out)]
               ELSE [layout |-> [c \in DOMAIN layout |->
                                   IF \E k \in DOMAIN callback_outputs : callback_outputs[k] = c
                                   THEN out[CHOOSE k \in DOMAIN callback_outputs :
                                                callback_outputs[k] = c]
                                   ELSE layout[c]],
                     raised |-> "", nargs |-> Len(args), nvalues |-> Len(out)]

InitDash ==
    /\ IdleTrain /\ IdleFs
    /\ cache = NoCache
    /\ \E a \in DOMAIN AppDefs : call = [op |-> "run_server", app |-> a, pending |-> TRUE, fired |-> 0]
    /\ ret = [layout |-> InitialLayout, raised |-> "", nargs |-> 0, nvalues |-> 0]

(* the user picks a colorscale in the dropdown *)
SelectColorscale ==
    /\ \E c \in Colorscales :
          /\ c # ret.layout[ColorscaleDropdown]
          /\ ret' = [ret EXCEPT !.layout[ColorscaleDropdown] = c]
    /\ call' = [call EXCEPT !.op = "select", !.pending = TRUE]
    /\ UNCHANGED <<cache, trvars, fsvars>>

(* Dash calls update_figure for the pending change *)
FireCallback ==
    /\ call.pending
    /\ ret' = dispatch(ret.layout)
    /\ call' = [call EXCEPT !.op = "callback", !.pending = FALSE,
                            !.fired = IF @ < 2 THEN @ + 1 ELSE @]
    /\ UNCHANGED <<cache, trvars, fsvars>>

NextDash == SelectColorscale \/ FireCallback

SpecDash == InitDash /\ [][NextDash]_vars

(* ---------------------------------------------------------------------- *)
(* SquareCrop                                                              *)
(*                                                                         *)
(* An image is [file, mode, size, box]: the file it was opened from, its   *)
(* size <<width, height>> as PIL reports it, and the window                *)
(* <<left, upper, right, lower>> of the resized image it was cropped to    *)
(* (<<>> when it was not cropped), with resized the size it was resized to *)
(* ---------------------------------------------------------------------- *)
MaxSide == 4
MaxOut == 3

NewImage(file, mode, size) ==
    [file |-> file, mode |-> mode, size |-> size, resized |-> size, box |-> <<>>]

(* int(scale * long) with scale = output_size / short: the exact quotient  *)
(* truncated; when the quotient is an integer and scale is not, float64    *)
(* rounding can leave the product just below it                            *)
ScaledSide(output_size, short, long) ==
    LET n == (output_size * long) \div short
    IN IF (output_size * long) % short = 0 /\ output_size % short # 0
       THEN {n, n - 1} ELSE {n}

(* crop starts drawn over the whole side of the resized image *)
crop_starts_whole_side(new_side, output_size) == 0..new_side

(* np.random.randint((new_side - output_size) + 1); it raises for a range  *)
(* that is empty                                                           *)
crop_starts(new_side, output_size) == 0..(new_side - output_size)

(* SquareCrop(output_size)(sample): the samples it can return.  h and w    *)
(* are named as in the code: h is the first entry of image.size.           *)
SquareCrop(output_size, sample) ==
    LET image == sample[1]
        label == sample[2]
        h == image.size[1]
        w == image.size[2]
        new_sizes ==
            IF h > w
            THEN { <<new_h, output_size>> : new_h \in ScaledSide(output_size, w, h) }
            ELSE IF w > h
            THEN { <<output_size, new_w>> : new_w \in ScaledSide(output_size, h, w) }
            ELSE { <<output_size, output_size>> }
    IN UNION { UNION { { << [image EXCEPT
                               !.resized = n,
                               !.box = <<sh, sw, sh + output_size, sw + output_size>>,
                               !.size = <<output_size, output_size>>],
                            label >>
                         : sh \in crop_starts(n[1], output_size) }
                     : sw \in crop_starts(n[2], output_size) }
             : n \in new_sizes }

ImageSizes == (1..MaxSide) \X (1..MaxSide)

InitCrop ==
    /\ IdleTrain /\ IdleFs
    /\ cache = NoCache
    /\ \E size \in ImageSizes, output_size \in 1..MaxOut, label \in {0, 1} :
          call = [op |-> "pending", output_size |-> output_size,
                  sample |-> <<NewImage("img", "RGB", size), label>>]
    /\ ret = <<NewImage("", "", <<0, 0>>), 0>>

(* one call of the transform on a sample *)
CropCall ==
    /\ call.op = "pending"
    /\ ret' \in SquareCrop(call.output_size, call.sample)
    /\ call' = [call EXCEPT !.op = "cropped"]
    /\ UNCHANGED <<cache, trvars, fsvars>>

NextCrop == CropCall

SpecCrop == InitCrop /\ [][NextCrop]_vars

(* ---------------------------------------------------------------------- *)
(* DummyDataset and ClassificationDataset                                  *)
(* ---------------------------------------------------------------------- *)
MaxItems == 3
CropSize == 2

(* the image files the rows of the csv point to: mode and size *)
Files == [f \in {"a.jpg", "b.jpg"} |->
             IF f = "a.jpg" THEN [mode |-> "L", size |-> <<4, 2>>]
             ELSE [mode |-> "RGB", size |-> <<2, 3>>]]

DummyDataset_len(l) == Len(l)

DummyDataset_getitem(l, index) == l[index + 1]

ClassificationDataset_len(csvrows) == Len(csvrows)

(* a __getitem__ that returns the image as opened *)
ClassificationDataset_getitem_untransformed(csvrows, transform, idx) ==
    { << NewImage(csvrows[idx + 1].file_path, "RGB", Files[csvrows[idx + 1].file_path].size),
         csvrows[idx + 1].label >> }

(* ClassificationDataset.__getitem__: the samples it can return (the       *)
(* transform draws the crop window at random)                              *)
ClassificationDataset_getitem(csvrows, transform, idx) ==
    LET filepath == csvrows[idx + 1].file_path
        label == csvrows[idx + 1].label
        img == NewImage(filepath, "RGB", Files[filepath].size)
    IN IF transform THEN SquareCrop(CropSize, <<img, label>>)
       ELSE { <<img, label>> }

DummyLists == UNION { [1..n -> 0..2] : n \in 0..MaxItems }

CsvRows == [file_path : DOMAIN Files, label : {0, 1}]

CsvTables == UNION { [1..n -> CsvRows] : n \in 0..MaxItems }

InitData ==
    /\ IdleTrain /\ IdleFs
    /\ cache = NoCache
    /\ \/ \E l \in DummyLists :
            call = [op |-> "new", kind |-> "DummyDataset", items |-> l,
                    transform |-> FALSE, idx |-> 0]
       \/ \E rows \in CsvTables, transform \in BOOLEAN :
            call = [op |-> "new", kind |-> "ClassificationDataset", items |-> rows,
                    transform |-> transform, idx |-> 0]
    /\ ret = [len |-> 0, item |-> <<>>]

(* len(dataset) *)
DatasetLen ==
    /\ ret' = [ret EXCEPT !.len = IF call.kind = "DummyDataset"
                                  THEN DummyDataset_len(call.items)
                                  ELSE ClassificationDataset_len(call.items)]
    /\ call' = [call EXCEPT !.op = "len"]
    /\ UNCHANGED <<cache, trvars, fsvars>>

(* dataset[idx] *)
DatasetGetItem ==
    /\ \E idx \in 0..(Len(call.items) - 1) :
          /\ call' = [call EXCEPT !.op = "getitem", !.idx = idx]
          /\ IF call.kind = "DummyDataset"
             THEN ret' = [ret EXCEPT !.item = <<DummyDataset_getitem(call.items, idx)>>]
             ELSE \E sample \in ClassificationDataset_getitem(call.items, call.transform, idx) :
                     ret' = [ret EXCEPT !.item = sample]
    /\ UNCHANGED <<cache, trvars, fsvars>>

NextData == DatasetLen \/ DatasetGetItem

SpecData == InitData /\ [][NextData]_vars

(* ====================================================================== *)
(* Claims about the multiclass-classification notebook                     *)
(* ====================================================================== *)

(* the value the loss is meant to have for example i: minus the log of the *)
(* softmax probability of the target class                                 *)
TargetLoss(logits, targets, i) ==
    NegLog(np_log(softmax(logits)[i][targets[i] + 1]))

(* C1: forward returns, for each example i, -log(softmax(logits)[i][targets[i]]). *)
C1_ForwardIsTargetNegLog ==
    call.op = "forward" =>
        /\ ret.raised = ""
        /\ Len(ret.val) = Len(call.logits)
        /\ \A i \in DOMAIN call.logits :
              ret.val[i] = TargetLoss(call.logits, call.targets, i)

(* C2: forward on (N, C) logits and N targets in 0..C-1 returns N loss     *)
(* values and builds a one-hot matrix with C columns, also when class C-1  *)
(* does not occur in the batch.                                            *)
C2_ForwardReturnsNLossesOneHotHasCCols ==
    call.op = "forward" =>
        /\ ret.raised = ""
        /\ Len(ret.val) = Len(call.logits)
        /\ Cols(cache[2]) = Cols(call.logits)

(* C4: the instance's state is self.cache alone; after any sequence of     *)
(* forward calls it is the pair (softmax output, one-hot targets) of the   *)
(* most recent forward, and a backward that follows computes from this     *)
(* pair and leaves it in place.                                            *)
C4_CacheIsMostRecentForward ==
    call.op \in {"forward", "backward"} =>
        LET pair == <<softmax(call.logits), to_one_hot(call.targets, None).val>>
        IN /\ cache = pair
           /\ call.op = "backward" =>
                 ret = backward([cache |-> pair], call.upstream).ret

C4_Witness ==
    /\ call.op = "backward"
    /\ call.replaced
    /\ ret.raised = ""
    /\ \E i \in DOMAIN call.upstream : call.upstream[i] # 0

(* the one-hot rows the targets stand for: one column per class *)
OneHotC(logits, targets) ==
    [i \in DOMAIN targets |->
        [j \in 1..Cols(logits) |-> IF j = targets[i] + 1 THEN 1 ELSE 0]]

(* C5: backward returns the two gradients (grad_logits, grad_one_hot) with *)
(* grad_logits[i] = upstream[i] * (softmax[i] - one_hot[i]) for one-hot    *)
(* rows and grad_one_hot[i] = -upstream[i] * log(softmax[i]).              *)
C5_BackwardGradients ==
    call.op = "backward" =>
        LET P == softmax(call.logits)
            OH == OneHotC(call.logits, call.targets)
            u == call.upstream
        IN /\ ret.raised = ""
           /\ Len(ret.val) = 2
           /\ ret.val[1] = [i \in DOMAIN P |-> [j \in DOMAIN P[i] |->
                               MulInt(u[i], SubInt(MulProb(P[i][j], 1), OH[i][j]))]]
           /\ ret.val[2] = [i \in DOMAIN P |-> [j \in DOMAIN P[i] |->
                               MulLog(-u[i], np_log(P[i][j]))]]

(* a row of softmax output sums to one: its non-zero entries are           *)
(* e^a / SUM(D) over one common D, and their numerators make up D          *)
RowSumsToOne(row) ==
    LET nz == SelectSeq(row, LAMBDA v : v # Zero)
    IN /\ nz # <<>>
       /\ \A j \in DOMAIN nz : nz[j].t = "q"
       /\ \A j \in DOMAIN nz : nz[j].D = BagOf([k \in DOMAIN nz |-> nz[k].a])

(* C9 as stated: every row of softmax(logits) consists of positive values  *)
(* that sum to one.                                                        *)
C9_RowsPositiveSumToOne ==
    call.op = "forward" =>
        \A i \in DOMAIN cache[1] :
            /\ \A j \in DOMAIN cache[1][i] : cache[1][i][j].t = "q"
            /\ RowSumsToOne(cache[1][i])

(* C9 amended: every row of softmax(logits) consists of non-negative       *)
(* values that sum to one; the entry of the row maximum is positive, and   *)
(* an entry is 0 when its logit lies more than 745 below the row maximum   *)
(* (exp underflows).                                                       *)
C9_RowsNonNegativeSumToOne ==
    call.op = "forward" =>
        \A i \in DOMAIN cache[1] :
            LET m == MaxOf(Range(call.logits[i]))
            IN /\ Len(cache[1][i]) = Len(call.logits[i])
               /\ \A j \in DOMAIN cache[1][i] :
                     /\ cache[1][i][j].t \in {"q", "zero"}
                     /\ call.logits[i][j] - m < ExpMin => cache[1][i][j] = Zero
                     /\ call.logits[i][j] = m => cache[1][i][j].t = "q"
               /\ RowSumsToOne(cache[1][i])

C9_Witness ==
    /\ call.op = "forward"
    /\ Len(cache[1]) >= 2
    /\ \E j \in DOMAIN cache[1][1] : cache[1][1][j] = Zero
    /\ \A j \in DOMAIN cache[1][2] : cache[1][2][j].t = "q"

AllInRange(x) ==
    \A i \in DOMAIN x : \A j \in DOMAIN x[i] : x[i][j] >= ExpMin /\ x[i][j] <= ExpMax

C10_OneHotRoundTrip ==
    (/\ call.op = "one_hot"
     /\ (call.max_labels = None \/ call.max_labels > MaxOf(Range(call.labels))))
    => /\ ret.one_hot.raised = ""
       /\ ret.labels = call.labels

C10_Witness ==
    /\ call.op = "one_hot"
    /\ call.max_labels = None
    /\ Cardinality(Range(call.labels)) >= 2
    /\ ret.labels = call.labels
    /\ Cols(ret.one_hot.val) = MaxOf(Range(call.labels)) + 1

(* C11: every row produced by to_one_hot holds exactly one 1 and zeros     *)
(* elsewhere, the 1 in the column of that sample's label; the number of    *)
(* columns is max_labels when given and max(labels) + 1 otherwise.         *)
C11_OneHotRows ==
    call.op = "one_hot" =>
        LET m == IF call.max_labels = None
                 THEN MaxOf(Range(call.labels)) + 1 ELSE call.max_labels
        IN /\ (call.max_labels = None \/ call.max_labels > MaxOf(Range(call.labels)))
                 => ret.one_hot.raised = ""
           /\ ret.one_hot.raised = "" =>
                 /\ Len(ret.one_hot.val) = Len(call.labels)
                 /\ \A i \in DOMAIN ret.one_hot.val :
                       LET row == ret.one_hot.val[i]
                       IN /\ Len(row) = m
                          /\ \A j \in DOMAIN row :
                                row[j] = IF j = call.labels[i] + 1 THEN 1 ELSE 0
                          /\ Cardinality({j \in DOMAIN row : row[j] = 1}) = 1

C11_Witness ==
    /\ call.op = "one_hot"
    /\ call.max_labels # None
    /\ call.max_labels > MaxOf(Range(call.labels)) + 1
    /\ Cardinality(Range(call.labels)) >= 2
    /\ ret.one_hot.raised = ""
    /\ Cols(ret.one_hot.val) = call.max_labels

(* a float64 that is neither nan nor infinite *)
Finite(v) == v \notin {Nan, PosInf, NegInf}

(* C12: forward adds a small epsilon before taking the logarithm, so the   *)
(* loss it returns is finite also when an entry of the softmax output is 0 *)
(* (stated for calls whose one-hot matrix has one column per class).       *)
C12_LossFiniteWhenSoftmaxHasZero ==
    (/\ call.op = "forward"
     /\ ret.raised = ""
     /\ Cols(cache[2]) = Cols(call.logits))
    => \A i \in DOMAIN ret.val : Finite(ret.val[i])

(* C13: in the stable softmax the row maximum is subtracted before the     *)
(* exponentiation: in every row all values passed to exp are <= 0 and at   *)
(* least one is 0, so exp does not overflow, the row's denominator is      *)
(* >= 1 (it holds the term e^0) and no entry of the result is nan or inf.  *)
C13_ExpArgsNonPositive ==
    call.op = "forward" =>
        LET z == SubtractRowMax(call.logits)
        IN \A i \in DOMAIN z :
              LET den == np_sum_exps(ExpRow(z[i]))
              IN /\ \A j \in DOMAIN z[i] : z[i][j] <= 0 /\ np_exp(z[i][j]) # PosInf
                 /\ \E j \in DOMAIN z[i] : z[i][j] = 0
                 /\ den \notin {PosInf, Zero}
                 /\ 0 \in DOMAIN den.S
                 /\ \A j \in DOMAIN cache[1][i] : cache[1][i][j] \notin {Nan, PosInf}

C13_Witness ==
    /\ call.op = "forward"
    /\ \E i \in DOMAIN call.logits :
          /\ \E j \in DOMAIN call.logits[i] : call.logits[i][j] > ExpMax
          /\ \E j \in DOMAIN call.logits[i] : SubtractRowMax(call.logits)[i][j] < ExpMin
          /\ \A j \in DOMAIN cache[1][i] : cache[1][i][j] \in {Zero, One}

(* ====================================================================== *)
(* Claims about the training cells of the PyTorch notebook                *)
(* ====================================================================== *)

(* C7: after frozen_model.freeze(), no optimiser step taken by train()    *)
(* changes a parameter of model.features, whatever the number of epochs   *)
(* and batches, although the optimiser was constructed over all the       *)
(* parameters before freeze() was called; the regressor parameters are    *)
(* updated at every step.                                                  *)
C7_FrozenFeaturesNeverUpdated ==
    (prog = "frozen" /\ pc \notin {"cell", "freeze"}) =>
        /\ "features" \in OptimParams(optim)
        /\ params["features"].updates = 0
        /\ params["features"].used = NoStep
        /\ params["regressor"].updates = loop.nsteps
        /\ loop.nsteps > 0 => params["regressor"].lr = Adam_lr

C7_Witness ==
    /\ prog = "frozen" /\ pc = "done"
    /\ "features" \in OptimParams(optim)
    /\ loop.e = FrozenEpochs /\ loop.ntrain > 1
    /\ loop.nsteps = FrozenEpochs * loop.ntrain
    /\ params["regressor"].updates = loop.nsteps

(* C8: in the basic loop and in train(), every optimiser step uses the    *)
(* gradient of exactly one backward pass, the one of the current          *)
(* iteration: between two consecutive backward calls the gradients are    *)
(* zeroed exactly once, so nothing accumulates across iterations or       *)
(* epochs.                                                                 *)
C8_StepUsesOneBackwardPass ==
    /\ \A p \in DOMAIN params :
          params[p].updates > 0 => params[p].used.passes = {params[p].used.at}
    /\ \A p \in DOMAIN params :
          ~params[p].grad.none => params[p].grad.passes \subseteq {loop.nback}
    /\ loop.nback >= 2 => loop.between = 1
    /\ pc \in {"step", "b_step"} =>
          \E p \in DOMAIN params : params[p].grad = [none |-> FALSE, passes |-> {loop.nback}]

C8_Witness ==
    /\ prog = "disc" /\ pc = "zero_grad"
    /\ loop.e >= 1 /\ loop.nback >= 2 /\ loop.between = 1
    /\ \A p \in DOMAIN params : params[p].used = [at |-> loop.nback, passes |-> {loop.nback}]


GroupsOf(p) == { k \in DOMAIN optim : p \in optim[k].params }

(* C14: in the discriminative optimiser every parameter of the model is   *)
(* in exactly one parameter group, the regressor parameters in the group  *)
(* with lr[0] = 3e-4 and the features parameters in the one with          *)
(* lr[1] = 3e-5: the pretrained layers are updated at every step, with    *)
(* the smaller rate.                                                       *)
C14_DiscriminativeGroups ==
    (prog = "disc" /\ pc # "cell") =>
        /\ \A p \in DOMAIN params : Cardinality(GroupsOf(p)) = 1
        /\ \A k \in GroupsOf("regressor") : optim[k].lr = lr0
        /\ \A k \in GroupsOf("features") : optim[k].lr = lr1
        /\ lr1 < lr0
        /\ params["features"].updates = loop.nsteps
        /\ params["regressor"].updates = loop.nsteps
        /\ loop.nsteps > 0 =>
              /\ params["features"].lr = lr1
              /\ params["regressor"].lr = lr0

C14_Witness ==
    /\ prog = "disc" /\ pc = "done"
    /\ loop.ntrain > 1
    /\ loop.nsteps = DiscEpochs * loop.ntrain
    /\ params["features"].updates = loop.nsteps
    /\ params["features"].lr = lr1
    /\ params["regressor"].lr = lr0

(* C19: in train() valcost is 0 again at the start of every epoch, and    *)
(* the validation value logged for an epoch is the sum of that epoch's    *)
(* per-batch validation costs divided by the number of validation         *)
(* batches; with no validation batches (val_size = 0: fewer than 10       *)
(* samples) train() ends with a division by zero at the end of the first  *)
(* epoch, after the optimiser steps of that epoch have updated the model. *)
C19_ValcostPerEpochAndZeroDivision ==
    prog \in {"disc", "frozen"} =>
        /\ pc \in {"zero_grad", "backward", "step"} => val.valcost = 0
        /\ pc \in {"val", "avg"} =>
              /\ val.valcost = SumSeq(val.costs)
              /\ Len(val.costs) = loop.vi
        /\ val.logged # <<>> =>
              /\ val.logged[1].sum = SumSeq(val.logged[1].costs)
              /\ val.logged[1].batches = Len(val.logged[1].costs)
              /\ val.logged[1].batches = loop.nval
              /\ loop.nval > 0
        /\ (loop.nval = 0) <=> (loop.data_size < 10)
        /\ (val.raised = "ZeroDivisionError") <=> (pc = "raised")
        /\ pc = "raised" =>
              /\ loop.nval = 0 /\ loop.e = 0
              /\ loop.nsteps = loop.ntrain /\ loop.nsteps >= 1
              /\ params["regressor"].updates = loop.nsteps
        /\ loop.nval = 0 => (loop.e = 0 /\ val.logged = <<>> /\ pc # "done")

C19_Witness ==
    /\ prog = "frozen" /\ pc = "raised"
    /\ val.raised = "ZeroDivisionError"
    /\ loop.data_size < 10 /\ loop.e = 0
    /\ params["regressor"].updates >= 1
    /\ val.logged = <<>>

(* ====================================================================== *)
(* Claims about create_csv                                                *)
(* ====================================================================== *)

SubFolders == { n \in DOMAIN fs : fs[n].is_dir }

FilesIn(d) == { f \in DOMAIN fs[d].children : fs[d].children[f] = "file" }

(* C6: the table create_csv writes has exactly the columns file_path and  *)
(* label, and exactly one row for every file located directly inside a    *)
(* sub-folder of root; the label of a row is the 0-based position of its  *)
(* sub-folder in the enumeration of the sub-folders, so the files of one  *)
(* sub-folder share a label and different sub-folders get different ones. *)
C6_CsvRowsAndLabels ==
    csv.written =>
        /\ csv.columns = <<"file_path", "label">>
        /\ { csv.rows[k].file_path : k \in DOMAIN csv.rows }
              = UNION { { <<d, f>> : f \in FilesIn(d) } : d \in SubFolders }
        /\ \A k, m \in DOMAIN csv.rows :
              csv.rows[k].file_path = csv.rows[m].file_path => k = m
        /\ { csv.subfolders[i] : i \in DOMAIN csv.subfolders } = SubFolders
        /\ Len(csv.subfolders) = Cardinality(SubFolders)
        /\ \A k \in DOMAIN csv.rows :
              /\ csv.rows[k].label + 1 \in DOMAIN csv.subfolders
              /\ csv.subfolders[csv.rows[k].label + 1] = csv.rows[k].file_path[1]
        /\ \A k, m \in DOMAIN csv.rows :
              (csv.rows[k].label = csv.rows[m].label)
                 <=> (csv.rows[k].file_path[1] = csv.rows[m].file_path[1])

C6_Witness ==
    /\ csv.written /\ csv.calls = 2
    /\ Cardinality(SubFolders) = 2
    /\ \E d \in SubFolders : Cardinality(FilesIn(d)) = 2
    /\ \E d \in SubFolders : \E f \in DOMAIN fs[d].children : fs[d].children[f] = "dir"
    /\ \E n \in RootNames : n \in DOMAIN fs /\ ~fs[n].is_dir
    /\ Len(csv.rows) = 3
    /\ csv.rows[1].label = 0 /\ csv.rows[3].label = 1


(* ====================================================================== *)
(* Claims about the Dash notebook                                         *)
(* ====================================================================== *)

(* the lines of out that the decorator did not add *)
OwnLines(out) ==
    SelectSeq(out, LAMBDA l : l \notin { <<"sunglasses">>, <<"You've been decorated">> }
                              /\ Len(l) # 3)

(* C15: a function decorated with decorator_function or my_timer behaves  *)
(* as the same function with added printing: a call of the wrapper, with  *)
(* any positional and keyword arguments, calls the original exactly once  *)
(* with the same arguments and returns what the original returns.         *)
C15_DecoratedBehavesAsOriginal ==
    call.op = "called" =>
        LET plain == original_function(call.fn, call.args, call.kwargs, NoWorld)
        IN /\ ret.w.calls = << [fn |-> call.fn, args |-> call.args, kwargs |-> call.kwargs] >>
           /\ ret.value = plain.value
           /\ ret.raised = plain.raised
           /\ OwnLines(ret.w.stdout) = plain.w.stdout
           /\ ret.raised = "" => Len(ret.w.stdout) > Len(plain.w.stdout)

C15_Witness ==
    /\ call.op = "called"
    /\ call.decorator = "decorator_function"
    /\ call.fn = "f"
    /\ Len(call.args) = 2 /\ Cardinality(call.kwargs) = 2
    /\ ret.value = [kind |-> "f", args |-> call.args, kwargs |-> call.kwargs]
    /\ Len(ret.w.stdout) = 2


(* C16: a function registered with @app.callback takes as many arguments  *)
(* as the decorator lists Inputs and returns as many values as it lists   *)
(* Outputs; so for update_figure in each of the three apps, whose every   *)
(* call by Dash succeeds and puts the figure of the selected colorscale   *)
(* into the graph.                                                         *)
C16_CallbackArity ==
    /\ Len(update_figure_params) = Len(callback_inputs)
    /\ call.op = "callback" =>
          /\ ret.raised = ""
          /\ ret.nargs = Len(callback_inputs)
          /\ ret.nvalues = Len(callback_outputs)
          /\ ret.layout[Graph] = scatter(ret.layout[ColorscaleDropdown])

C16_Witness ==
    /\ call.op = "callback" /\ call.app = 3 /\ call.fired = 2
    /\ AppDefs[call.app].dropdown = "dbc.Select"
    /\ ret.raised = ""
    /\ ret.layout[Graph] = scatter("viridis")


(* ====================================================================== *)
(* Claims about the dataset cells                                         *)
(* ====================================================================== *)

(* C18: for every image of width and height >= 1 and every output_size    *)
(* >= 1, SquareCrop returns an image of exactly output_size x output_size *)
(* pixels whose crop window lies inside the resized image (shorter side   *)
(* resized to output_size, longer side to at least output_size), and      *)
(* returns the label unchanged.                                            *)
C18_SquareCropWindow ==
    /\ call.op = "pending" => SquareCrop(call.output_size, call.sample) # {}
    /\ call.op = "cropped" =>
          LET img == ret[1]
              out == call.output_size
              h == call.sample[1].size[1]
              w == call.sample[1].size[2]
          IN /\ ret[2] = call.sample[2]
             /\ img.size = <<out, out>>
             /\ img.box[3] - img.box[1] = out /\ img.box[4] - img.box[2] = out
             /\ img.box[1] >= 0 /\ img.box[2] >= 0
             /\ img.box[3] <= img.resized[1] /\ img.box[4] <= img.resized[2]
             /\ img.resized[1] >= out /\ img.resized[2] >= out
             /\ h <= w => img.resized[1] = out
             /\ w <= h => img.resized[2] = out
             /\ img.file = call.sample[1].file

C18_Witness ==
    /\ call.op = "cropped"
    /\ call.sample[1].size[1] > call.sample[1].size[2]
    /\ call.output_size >= 2
    /\ ret[1].resized[1] > call.output_size
    /\ ret[1].box[1] > 0
    /\ ret[1].box[3] = ret[1].resized[1]
    /\ ret[1].size = <<call.output_size, call.output_size>>


====
